---- MODULE Spec2Model ----
(***************************************************************************)
(* Model of the abalone regression notebook (src/4_regression.ipynb):      *)
(*   - split_and_preprocess: prefix/suffix split and mean/std              *)
(*     normalisation of a 2-D array,                                       *)
(*   - TrainingHistory: the Keras callback accumulating per-epoch losses,  *)
(*   - train_model / plot_history: the fit call and the plot of the        *)
(*     recorded history.                                                   *)
(*                                                                         *)
(* Floating point values are modelled by exact real numbers of the form    *)
(* (n/d) * sqrt(r), r squarefree, extended with the IEEE specials nan,     *)
(* inf and -inf that numpy produces on division by zero.  Rounding error   *)
(* is not modelled: "approximately 0/1" is exact 0/1 here.                 *)
(***************************************************************************)
EXTENDS Integers, Sequences, FiniteSets, TLC

(***************************************************************************)
(* Bounds of the model.                                                    *)
(***************************************************************************)
\* largest number of samples (rows) of an input dataset
MaxRows == 3
\* largest denominator of a train_fraction p/q
MaxDen == 3
\* largest epochs argument of train_model
MaxEpochs == 3
\* how many times the framework starts a training with one callback instance
MaxRuns == 2

\* column counts of the input datasets (1: the label alone)
ColumnCounts == {1, 2, 3}
\* the values a cell of the input dataset takes
CellValues == {0, 1}
\* the values the framework reports as a loss
LossValues == {1, 2}
\* the batch_size arguments passed to train_model
BatchSizes == {16, 32, 64}

(***************************************************************************)
(* Real arithmetic on values (n/d) * sqrt(r) and the IEEE specials.        *)
(***************************************************************************)
Abs(x) == IF x < 0 THEN -x ELSE x

RECURSIVE GCD(_, _)
GCD(a, b) == IF b = 0 THEN a ELSE GCD(b, a % b)

\* largest k with k*k dividing m (m >= 1)
SquarePart(m) ==
    CHOOSE k \in 1..m :
        /\ m % (k * k) = 0
        /\ \A j \in (k + 1)..m : j * j > m \/ m % (j * j) # 0

NaN == [k |-> "nan", n |-> 0, d |-> 1, r |-> 1]
PosInf == [k |-> "inf", n |-> 1, d |-> 1, r |-> 1]
NegInf == [k |-> "inf", n |-> -1, d |-> 1, r |-> 1]

\* the canonical form of (n/d) * sqrt(r), d # 0, r >= 1
Fin(n, d, r) ==
    IF n = 0 THEN [k |-> "fin", n |-> 0, d |-> 1, r |-> 1]
    ELSE LET s == SquarePart(r)
             nn == (IF d < 0 THEN -n ELSE n) * s
             dd == Abs(d)
             g == GCD(Abs(nn), dd)
         IN [k |-> "fin", n |-> nn \div g, d |-> dd \div g, r |-> r \div (s * s)]

FromInt(i) == Fin(i, 1, 1)
Zero == FromInt(0)
One == FromInt(1)

IsNaN(a) == a.k = "nan"
IsInf(a) == a.k = "inf"
IsFin(a) == a.k = "fin"

Neg(a) == [a EXCEPT !.n = -a.n]

\* a + b
Add(a, b) ==
    CASE IsNaN(a) \/ IsNaN(b) -> NaN
      [] IsInf(a) /\ IsInf(b) -> IF a.n = b.n THEN a ELSE NaN
      [] IsInf(a) -> a
      [] IsInf(b) -> b
      [] a.n = 0 -> b
      [] b.n = 0 -> a
      [] a.r = b.r -> Fin(a.n * b.d + b.n * a.d, a.d * b.d, a.r)

\* a - b
Subtract(a, b) == Add(a, Neg(b))

\* a * b
Multiply(a, b) ==
    CASE IsNaN(a) \/ IsNaN(b) -> NaN
      [] IsInf(a) \/ IsInf(b) ->
            IF a.n = 0 \/ b.n = 0 THEN NaN
            ELSE IF (a.n > 0) = (b.n > 0) THEN PosInf ELSE NegInf
      [] OTHER -> Fin(a.n * b.n, a.d * b.d, a.r * b.r)

\* a / b, with numpy's results for a zero divisor
Divide(a, b) ==
    CASE IsNaN(a) \/ IsNaN(b) -> NaN
      [] IsInf(a) /\ IsInf(b) -> NaN
      [] IsInf(a) -> IF (a.n > 0) = (b.n >= 0) THEN PosInf ELSE NegInf
      [] IsInf(b) -> Zero
      [] b.n = 0 -> IF a.n = 0 THEN NaN ELSE IF a.n > 0 THEN PosInf ELSE NegInf
      [] OTHER -> Fin(a.n * b.d, a.d * b.n * b.r, a.r * b.r)

\* sqrt(a), a >= 0 rational
Sqrt(a) ==
    CASE IsNaN(a) -> NaN
      [] IsInf(a) -> IF a.n > 0 THEN PosInf ELSE NaN
      [] a.n < 0 -> NaN
      [] a.n = 0 -> Zero
      [] a.r = 1 -> Fin(1, a.d, a.n * a.d)

RECURSIVE SumSeq(_)
SumSeq(s) == IF s = <<>> THEN Zero ELSE Add(s[1], SumSeq(Tail(s)))

Min(a, b) == IF a < b THEN a ELSE b
Max(a, b) == IF a < b THEN b ELSE a

(***************************************************************************)
(* The inputs: datasets of shape (samples, features) and train fractions.  *)
(***************************************************************************)
CellReals == {FromInt(v) : v \in CellValues}

\* a 2-D array: its shape and its rows
Datasets ==
    UNION {{[shape |-> <<N, F>>, rows |-> m] : m \in [1..N -> [1..F -> CellReals]]} :
           <<N, F>> \in (0..MaxRows) \X ColumnCounts}

\* train_fraction = p/q in lowest terms: the fractions of [0, 1], and one
\* below and one above that interval
TrainFractions ==
    {f \in (0..MaxDen) \X (1..MaxDen) : f[1] <= f[2] /\ GCD(f[1], f[2]) = 1}
        \cup {<<-1, 2>>, <<3, 2>>}

InUnitInterval(f) == 0 <= f[1] /\ f[1] <= f[2]

(***************************************************************************)
(* split_and_preprocess                                                    *)
(***************************************************************************)
\* int(x) of Python for x = a/b, b > 0: truncation towards zero
int(a, b) == IF a >= 0 THEN a \div b ELSE -((-a) \div b)

\* split_point = int(data.shape[0] * train_fraction)
SplitPoint(d, f) == int(d.shape[1] * f[1], f[2])

\* the position a slice bound i denotes in a dimension of length len
SliceIndex(i, len) == IF i < 0 THEN Max(i + len, 0) ELSE Min(i, len)

\* the rows (0-based, half open) of data[:stop] and of data[start:]
RowsUpTo(stop, len) == [lo |-> 0, hi |-> SliceIndex(stop, len)]
\* (a test partition that starts one row late)
RowsFrom_skip(start, len) == [lo |-> SliceIndex(start + 1, len), hi |-> len]
RowsFrom(start, len) == [lo |-> SliceIndex(start, len), hi |-> len]

\* (a view that keeps the label column)
FeatureView_all(d, rows) ==
    [lo |-> rows.lo, hi |-> Max(rows.hi, rows.lo), ncols |-> d.shape[2]]

\* data[rows, :label_index]: a view of the feature columns of the given rows
FeatureView(d, rows) ==
    [lo |-> rows.lo, hi |-> Max(rows.hi, rows.lo),
     ncols |-> SliceIndex(-1, d.shape[2])]

\* the 2-D array a feature view shows, read from the array it is a view of
ReadView(d, v) ==
    [i \in 1..(v.hi - v.lo) |-> [c \in 1..v.ncols |-> d.rows[v.lo + i][c]]]

\* data[rows, label_index]: the last column of the given rows
LabelView(d, rows) ==
    [i \in 1..(Max(rows.hi, rows.lo) - rows.lo) |-> d.rows[rows.lo + i][d.shape[2]]]

\* (statistics of all the rows of the dataset)
StatsInput_all(d, train) ==
    ReadView(d, [lo |-> 0, hi |-> d.shape[1], ncols |-> train.ncols])

\* the array train.mean(axis=0) and train.std(axis=0) are computed from:
\* the training view
StatsInput(d, train) == ReadView(d, train)

\* column c of a 2-D array given as a sequence of rows
Column(m, c) == [i \in 1..Len(m) |-> m[i][c]]

\* m.mean(axis=0) for n rows: sum / n per column (nan for no rows)
mean_axis0(m, ncols) ==
    [c \in 1..ncols |-> Divide(SumSeq(Column(m, c)), FromInt(Len(m)))]

\* (the sample standard deviation, ddof=1)
std_axis0_ddof1(m, ncols) ==
    [c \in 1..ncols |->
        LET col == Column(m, c)
            mu == Divide(SumSeq(col), FromInt(Len(m)))
            dev == [i \in 1..Len(m) |-> Subtract(col[i], mu)]
            sq == [i \in 1..Len(m) |-> Multiply(dev[i], dev[i])]
        IN Sqrt(Divide(SumSeq(sq), FromInt(Max(Len(m) - 1, 0))))]

\* m.std(axis=0): sqrt(mean(abs(m - m.mean())**2)) per column
std_axis0(m, ncols) ==
    [c \in 1..ncols |->
        LET col == Column(m, c)
            mu == Divide(SumSeq(col), FromInt(Len(m)))
            dev == [i \in 1..Len(m) |-> Subtract(col[i], mu)]
            sq == [i \in 1..Len(m) |-> Multiply(dev[i], dev[i])]
        IN Sqrt(Divide(SumSeq(sq), FromInt(Len(m))))]

\* (the assignment left out)
SetItem0_skip(a, x) == a

\* a[0] = x on a 1-D array a of at least one element
SetItem0(a, x) == [a EXCEPT ![1] = x]

\* (m -= mean; m /= sigma: the normalisation in place, written through the
\* view into the array it was taken from)
Normalized_inplace(d, v, mean, sigma) ==
    LET out == [i \in 1..(v.hi - v.lo) |->
                  [c \in 1..v.ncols |->
                      Divide(Subtract(d.rows[v.lo + i][c], mean[c]), sigma[c])]]
    IN [out |-> out,
        data |-> [d EXCEPT !.rows =
                    [i \in 1..d.shape[1] |->
                        [c \in 1..d.shape[2] |->
                            IF v.lo < i /\ i <= v.hi /\ c <= v.ncols
                            THEN out[i - v.lo][c] ELSE d.rows[i][c]]]]]

\* (the rows of the partition in reverse order)
Normalized_reversed(d, v, mean, sigma) ==
    [out |-> [i \in 1..(v.hi - v.lo) |->
                [c \in 1..v.ncols |->
                    Divide(Subtract(d.rows[v.hi + 1 - i][c], mean[c]), sigma[c])]],
     data |-> d]

\* (m - mean) / sigma, broadcast over the rows: a new array; the array the
\* view m was read from is left as it is
Normalized(d, v, mean, sigma) ==
    [out |-> [i \in 1..(v.hi - v.lo) |->
                [c \in 1..v.ncols |->
                    Divide(Subtract(d.rows[v.lo + i][c], mean[c]), sigma[c])]],
     data |-> d]

\* The call split_and_preprocess(data, train_fraction): what it returns, the
\* locals the result depends on, and the input array after the call.
split_and_preprocess(d, f) ==
    LET N == d.shape[1]
        sp == SplitPoint(d, f)
        train_rows == RowsUpTo(sp, N)
        test_rows == RowsFrom(sp, N)
        train == FeatureView(d, train_rows)
        test == FeatureView(d, test_rows)
        mean0 == mean_axis0(StatsInput(d, train), train.ncols)
        sigma0 == std_axis0(StatsInput(d, train), train.ncols)
    IN  IF train.ncols = 0
        THEN \* mean[0] = 0.0 on an empty array
             [raised |-> "IndexError", split_point |-> sp,
              mean |-> mean0, sigma |-> sigma0,
              train_data |-> <<>>, train_labels |-> <<>>,
              test_data |-> <<>>, test_labels |-> <<>>, data |-> d]
        ELSE LET mean == SetItem0(mean0, Zero)
                 sigma == SetItem0(sigma0, One)
                 ntrain == Normalized(d, train, mean, sigma)
                 ntest == Normalized(ntrain.data, test, mean, sigma)
             IN [raised |-> "none", split_point |-> sp,
                 mean |-> mean, sigma |-> sigma,
                 train_data |-> ntrain.out,
                 train_labels |-> LabelView(ntest.data, train_rows),
                 test_data |-> ntest.out,
                 test_labels |-> LabelView(ntest.data, test_rows),
                 data |-> ntest.data]

(***************************************************************************)
(* TrainingHistory, train_model, plot_history                              *)
(***************************************************************************)
\* the logs dictionaries the framework passes to on_epoch_end: any of the
\* keys 'loss' and 'val_loss' may be present
LogKeys == {"loss", "val_loss"}
Logs == UNION {[K -> LossValues] : K \in SUBSET LogKeys}

\* the keyword arguments of the model.fit call made by train_model
FitCall(epochs_arg, batch_size_arg) ==
    [validation_data |-> "test", epochs |-> epochs_arg,
     shuffle |-> TRUE, callbacks |-> "history"]

\* the batch size a fit call trains with: its batch_size argument, and
\* the framework's 32 if it passes none
KerasBatchSize == 32
BatchSizeUsed(kwargs) ==
    IF "batch_size" \in DOMAIN kwargs THEN kwargs.batch_size ELSE KerasBatchSize

\* (lists that are kept from one training to the next)
on_train_begin_keep(l, v) == [loss |-> l, validation_loss |-> v]

\* TrainingHistory.on_train_begin: the two lists after the call
on_train_begin(l, v) == [loss |-> <<>>, validation_loss |-> <<>>]

\* (the validation loss appended to the training losses as well)
on_epoch_end_mixed(l, v, logs) ==
    [loss |-> IF "val_loss" \in DOMAIN logs THEN Append(l, logs.val_loss) ELSE l,
     validation_loss |->
        IF "val_loss" \in DOMAIN logs THEN Append(v, logs.val_loss) ELSE v]

\* TrainingHistory.on_epoch_end: the two lists after the call
on_epoch_end(l, v, logs) ==
    [loss |-> IF "loss" \in DOMAIN logs THEN Append(l, logs.loss) ELSE l,
     validation_loss |->
        IF "val_loss" \in DOMAIN logs THEN Append(v, logs.val_loss) ELSE v]

VARIABLES
    hpc,          \* "idle", "fit", "returned", "plotted" or "raised"
    batch_size,   \* the batch_size argument of train_model
    fit_kwargs,   \* the keyword arguments model.fit was called with
    has_lists,    \* whether history.loss and history.validation_loss exist
    loss, validation_loss,   \* the attributes of the TrainingHistory
    runs,         \* on_train_begin calls made on the instance
    epoch,        \* on_epoch_end calls since the training began
    reported      \* the logs passed to on_epoch_end since the last on_train_begin

historyVars == <<hpc, batch_size, fit_kwargs, has_lists, loss, validation_loss,
                 runs, epoch, reported>>

InitHistory ==
    /\ hpc = "idle"
    /\ batch_size = 32
    /\ fit_kwargs = [epochs |-> 0]
    /\ has_lists = FALSE
    /\ loss = <<>>
    /\ validation_loss = <<>>
    /\ runs = 0
    /\ epoch = 0
    /\ reported = <<>>

\* history = train_model(model, ..., epochs, batch_size), up to the fit call
TrainModel ==
    /\ hpc = "idle"
    /\ \E e \in 1..MaxEpochs, b \in BatchSizes :
          /\ batch_size' = b
          /\ fit_kwargs' = FitCall(e, b)
    /\ hpc' = "fit"
    /\ UNCHANGED <<has_lists, loss, validation_loss, runs, epoch, reported>>

\* the framework calls history.on_train_begin(logs)
OnTrainBegin ==
    /\ hpc = "fit"
    /\ runs < MaxRuns
    /\ \E r \in {on_train_begin(loss, validation_loss)} :
          /\ loss' = r.loss
          /\ validation_loss' = r.validation_loss
    /\ has_lists' = TRUE
    /\ runs' = runs + 1
    /\ epoch' = 0
    /\ reported' = <<>>
    /\ UNCHANGED <<hpc, batch_size, fit_kwargs>>

\* the framework calls history.on_epoch_end(epoch, logs); an append to a
\* list that was never created raises AttributeError
OnEpochEnd ==
    /\ hpc = "fit"
    /\ epoch < fit_kwargs.epochs
    /\ \E logs \in Logs :
          IF ~has_lists /\ DOMAIN logs # {}
          THEN /\ hpc' = "raised"
               /\ UNCHANGED <<loss, validation_loss, epoch, reported>>
          ELSE /\ \E r \in {on_epoch_end(loss, validation_loss, logs)} :
                     /\ loss' = r.loss
                     /\ validation_loss' = r.validation_loss
               /\ epoch' = epoch + 1
               /\ reported' = Append(reported, logs)
               /\ UNCHANGED hpc
    /\ UNCHANGED <<batch_size, fit_kwargs, has_lists, runs>>

\* model.fit returns after the last epoch and train_model returns history
FitReturn ==
    /\ hpc = "fit"
    /\ runs >= 1
    /\ epoch = fit_kwargs.epochs
    /\ hpc' = "returned"
    /\ UNCHANGED <<batch_size, fit_kwargs, has_lists, loss, validation_loss,
                   runs, epoch, reported>>

\* plot_history(history): both lists are plotted against
\* np.arange(len(history.loss)), which needs lists of that length
PlotHistory ==
    /\ hpc = "returned"
    /\ hpc' = IF Len(validation_loss) = Len(loss) THEN "plotted" ELSE "raised"
    /\ UNCHANGED <<batch_size, fit_kwargs, has_lists, loss, validation_loss,
                   runs, epoch, reported>>

VARIABLES
    file_data,       \* the 'data' dataset of the HDF5 file
    data,            \* the array load_data read from the file
    train_fraction,  \* the argument of split_and_preprocess, <<p, q>> for p/q
    pc,              \* "loaded", "preprocessed" or "raised"
    split_point, mean, sigma,   \* locals of split_and_preprocess
    train_data, train_labels, test_data, test_labels   \* what it returned

splitVars == <<file_data, data, train_fraction, pc, split_point, mean, sigma,
               train_data, train_labels, test_data, test_labels>>

vars == <<splitVars, historyVars>>

\* the notebook before split_and_preprocess is called
InitSplit ==
    /\ file_data \in Datasets
    /\ data = file_data
    /\ train_fraction \in TrainFractions
    /\ pc = "loaded"
    /\ split_point = 0
    /\ mean = <<>>
    /\ sigma = <<>>
    /\ train_data = <<>>
    /\ train_labels = <<>>
    /\ test_data = <<>>
    /\ test_labels = <<>>
    /\ InitHistory

\* train_data, train_labels, test_data, test_labels = split_and_preprocess(data)
Preprocess ==
    /\ pc = "loaded"
    /\ \E r \in {split_and_preprocess(data, train_fraction)} :
          /\ pc' = IF r.raised = "none" THEN "preprocessed" ELSE "raised"
          /\ data' = r.data
          /\ split_point' = r.split_point
          /\ mean' = r.mean
          /\ sigma' = r.sigma
          /\ train_data' = r.train_data
          /\ train_labels' = r.train_labels
          /\ test_data' = r.test_data
          /\ test_labels' = r.test_labels
    /\ UNCHANGED <<file_data, train_fraction, historyVars>>

NextSplit == Preprocess

\* the preprocessing of every dataset and train fraction of the bounds
SpecSplit == InitSplit /\ [][NextSplit]_vars

\* the notebook after preprocessing, before train_model is called; the
\* training is delegated to the framework and reads no array of the model
InitTrain ==
    /\ file_data = [shape |-> <<0, 2>>, rows |-> <<>>]
    /\ data = file_data
    /\ train_fraction = <<3, 4>>
    /\ pc = "preprocessed"
    /\ split_point = 0
    /\ mean = <<Zero>>
    /\ sigma = <<One>>
    /\ train_data = <<>>
    /\ train_labels = <<>>
    /\ test_data = <<>>
    /\ test_labels = <<>>
    /\ InitHistory

NextTrain ==
    \/ TrainModel /\ UNCHANGED splitVars
    \/ OnTrainBegin /\ UNCHANGED splitVars
    \/ OnEpochEnd /\ UNCHANGED splitVars
    \/ FitReturn /\ UNCHANGED splitVars
    \/ PlotHistory /\ UNCHANGED splitVars

\* the training: train_model, the framework's callbacks, plot_history
SpecTrain == InitTrain /\ [][NextTrain]_vars

(***************************************************************************)
(* Properties of split_and_preprocess, under SpecSplit                     *)
(***************************************************************************)
Returned == pc = "preprocessed"
N_rows == file_data.shape[1]
N_cols == file_data.shape[2]
N_train == Len(train_data)
N_test == Len(test_data)

\* row i (1-based) of the input, normalised with the statistics in use
NormalizedRow(i) ==
    [c \in 1..(N_cols - 1) |->
        Divide(Subtract(file_data.rows[i][c], mean[c]), sigma[c])]

\* the first k rows of a dataset, as a dataset of its own
FirstRows(d, k) == [shape |-> <<k, d.shape[2]>>, rows |-> SubSeq(d.rows, 1, k)]

\* a dataset with every value of its last column replaced by x
WithLabels(d, x) ==
    [d EXCEPT !.rows =
        [i \in 1..d.shape[1] |->
            [c \in 1..d.shape[2] |-> IF c = d.shape[2] THEN x ELSE d.rows[i][c]]]]

\* C1: for train_fraction p/q in [0, 1] the training partition has
\* floor(N * p / q) rows and the test partition the remaining ones, for the
\* features and for the labels, so that the sizes sum to N.
C1_SplitSizes ==
    (Returned /\ InUnitInterval(train_fraction)) =>
        /\ N_train = (N_rows * train_fraction[1]) \div train_fraction[2]
        /\ N_test = N_rows - N_train
        /\ Len(train_labels) = N_train
        /\ Len(test_labels) = N_test
        /\ N_train + N_test = N_rows
        /\ Len(train_labels) + Len(test_labels) = N_rows

\* a dataset of three rows split 2 : 1 by train_fraction 2/3
C1_Witness ==
    /\ Returned
    /\ train_fraction = <<2, 3>>
    /\ N_rows = 3
    /\ N_train = 2
    /\ N_test = 1

\* C2: mean and sigma, the normalised training matrix and the training
\* labels are those of the training rows alone (the result of preprocessing
\* the dataset cut down to its training rows), so two datasets that agree on
\* the training rows and differ in later rows get the same ones; and the
\* same mean and sigma normalise the training and the test partition.
C2_TrainingStatisticsOnly ==
    Returned =>
        LET alone == split_and_preprocess(FirstRows(file_data, N_train), <<1, 1>>)
        IN /\ alone.mean = mean
           /\ alone.sigma = sigma
           /\ alone.train_data = train_data
           /\ alone.train_labels = train_labels
           /\ \A i \in 1..N_train : train_data[i] = NormalizedRow(i)
           /\ \A j \in 1..N_test : test_data[j] = NormalizedRow(N_train + j)

\* two training rows of mean 1/2 and a test row that would move the mean
C2_Witness ==
    /\ Returned
    /\ N_cols = 3
    /\ N_train = 2
    /\ N_test = 1
    /\ mean[2] = Fin(1, 2, 1)
    /\ file_data.rows[3][2] = One
    /\ test_data[1][2] = One

\* C3: column 0 of both returned feature matrices equals column 0 of the
\* corresponding input rows, mean 0 and scale 1 being applied to it.
C3_CategoricalUnmodified ==
    Returned =>
        /\ mean[1] = Zero
        /\ sigma[1] = One
        /\ \A i \in 1..N_train : train_data[i][1] = file_data.rows[i][1]
        /\ \A j \in 1..N_test : test_data[j][1] = file_data.rows[N_train + j][1]

\* a categorical column that is not constant on the training rows
C3_Witness ==
    /\ Returned
    /\ N_train = 2
    /\ N_test = 1
    /\ train_data[1][1] = Zero
    /\ train_data[2][1] = One
    /\ test_data[1][1] = One

\* C4: both feature matrices have F-1 columns, the returned features are
\* those of the dataset with another label column (so no feature depends on
\* the last input column), and the label vectors are the last column of the
\* corresponding rows, as it is in the input.
C4_LabelExcluded ==
    Returned =>
        LET other == split_and_preprocess(WithLabels(file_data, Zero), train_fraction)
        IN /\ \A i \in 1..N_train : DOMAIN train_data[i] = 1..(N_cols - 1)
           /\ \A j \in 1..N_test : DOMAIN test_data[j] = 1..(N_cols - 1)
           /\ other.train_data = train_data
           /\ other.test_data = test_data
           /\ other.mean = mean
           /\ other.sigma = sigma
           /\ \A i \in 1..N_train : train_labels[i] = file_data.rows[i][N_cols]
           /\ \A j \in 1..N_test : test_labels[j] = file_data.rows[N_train + j][N_cols]

\* labels that differ from the feature beside them, in both partitions
C4_Witness ==
    /\ Returned
    /\ N_cols = 3
    /\ N_train = 2
    /\ N_test = 1
    /\ train_labels = <<One, Zero>>
    /\ test_labels = <<One>>
    /\ file_data.rows[1][2] = Zero
    /\ file_data.rows[3][2] = Zero

\* the mean and the (population) standard deviation of column c of the
\* normalised training matrix
TrainColumn(c) == [i \in 1..N_train |-> train_data[i][c]]
TrainMean(c) == Divide(SumSeq(TrainColumn(c)), FromInt(N_train))
TrainStd(c) ==
    LET dev == [i \in 1..N_train |-> Subtract(train_data[i][c], TrainMean(c))]
        sq == [i \in 1..N_train |-> Multiply(dev[i], dev[i])]
    IN Sqrt(Divide(SumSeq(sq), FromInt(N_train)))

\* the values of feature c on the training rows are not all the same
Varies(c) ==
    \E i, j \in 1..N_train : file_data.rows[i][c] # file_data.rows[j][c]

\* C5 as claimed: every normalised training feature but the first has mean 0
\* and standard deviation 1, constant features and empty training
\* partitions included.
C5_AsClaimed ==
    (Returned /\ InUnitInterval(train_fraction)) =>
        \A c \in 2..(N_cols - 1) : TrainMean(c) = Zero /\ TrainStd(c) = One

\* C5, amended: every normalised training feature but the first that is not
\* constant on the training rows has mean 0 and standard deviation 1; a
\* feature that is constant on a training partition of at least one row is
\* normalised to nan, and so are the mean and the standard deviation of any
\* feature of an empty training partition.
C5_NormalizedMoments ==
    Returned =>
        \A c \in 2..(N_cols - 1) :
            /\ Varies(c) => TrainMean(c) = Zero /\ TrainStd(c) = One
            /\ ~Varies(c) =>
                  /\ \A i \in 1..N_train : train_data[i][c] = NaN
                  /\ TrainMean(c) = NaN
                  /\ TrainStd(c) = NaN

\* three training rows whose feature has the irrational deviation sqrt(2)/3
C5_Witness ==
    /\ Returned
    /\ N_cols = 3
    /\ N_train = 3
    /\ sigma[2] = Fin(1, 3, 2)
    /\ TrainStd(2) = One

\* C6: with train_fraction in [0, 1] the training partition is the first
\* split_point rows; training row i comes from input row i and test row j
\* from the input row j places after the last training row, in the input's
\* order, features and labels alike; every input row is in one partition.
C6_ContiguousSplit ==
    Returned =>
        /\ InUnitInterval(train_fraction) => N_train = split_point
        /\ N_train + N_test = N_rows
        /\ Len(train_labels) = N_train
        /\ Len(test_labels) = N_test
        /\ \A i \in 1..N_train :
              /\ train_data[i] = NormalizedRow(i)
              /\ train_labels[i] = file_data.rows[i][N_cols]
        /\ \A j \in 1..N_test :
              /\ test_data[j] = NormalizedRow(N_train + j)
              /\ test_labels[j] = file_data.rows[N_train + j][N_cols]

\* three rows, no two alike, one for training and two for the test
C6_Witness ==
    /\ Returned
    /\ N_rows = 3
    /\ split_point = 1
    /\ N_test = 2
    /\ file_data.rows[1] # file_data.rows[2]
    /\ file_data.rows[2] # file_data.rows[3]
    /\ file_data.rows[1] # file_data.rows[3]
    /\ test_data[1] # test_data[2]
    /\ test_labels[1] # test_labels[2]

\* C9: the loaded array holds what the file holds, before and after the
\* call of split_and_preprocess, column 0 included.
C9_InputUnchanged == data = file_data

\* a call that overwrote mean[0] and sigma[0] and normalised a feature
C9_Witness ==
    /\ Returned
    /\ N_cols = 3
    /\ N_train = 2
    /\ file_data.rows[1][1] = One
    /\ file_data.rows[1][2] = One
    /\ train_data[1][2] # One
    /\ mean[1] = Zero

(***************************************************************************)
(* Properties of the training history, under SpecTrain                     *)
(***************************************************************************)
\* every logs dictionary reported since on_train_begin has both losses
AllCarryBoth == \A i \in 1..Len(reported) : DOMAIN reported[i] = LogKeys

\* the values under key k of the logs that have it, in the order reported
RECURSIVE Reported(_, _)
Reported(logs, k) ==
    IF logs = <<>> THEN <<>>
    ELSE IF k \in DOMAIN logs[1]
         THEN <<logs[1][k]>> \o Reported(Tail(logs), k)
         ELSE Reported(Tail(logs), k)

IsPrefix(a, b) == Len(a) <= Len(b) /\ SubSeq(b, 1, Len(a)) = a

\* C7: after on_train_begin and k on_epoch_end calls whose logs carry
\* 'loss' and 'val_loss', both lists hold exactly k values, the i-th being
\* the one reported at the end of the i-th epoch.
C7_PerEpochRecord ==
    (has_lists /\ AllCarryBoth) =>
        /\ Len(loss) = Len(reported)
        /\ Len(validation_loss) = Len(reported)
        /\ \A i \in 1..Len(reported) :
              /\ loss[i] = reported[i].loss
              /\ validation_loss[i] = reported[i].val_loss

\* three epochs with both losses, returned by train_model and plotted
C7_Witness ==
    /\ hpc = "plotted"
    /\ AllCarryBoth
    /\ loss = <<2, 1, 1>>
    /\ validation_loss = <<2, 2, 1>>

\* C8 as claimed: the fit call issued by train_model trains with batches of
\* the size of its batch_size argument.
C8_AsClaimed == (hpc # "idle") => BatchSizeUsed(fit_kwargs) = batch_size

\* C10: on_train_begin empties both lists; any other step leaves the lists
\* as they are or appends one value to a list; so the lists hold the values
\* reported since the most recent on_train_begin, and nothing else.
C10_ResetAndAppendOnly ==
    [][/\ OnTrainBegin => (loss' = <<>> /\ validation_loss' = <<>>)
       /\ ~OnTrainBegin =>
             /\ IsPrefix(loss, loss') /\ Len(loss') <= Len(loss) + 1
             /\ IsPrefix(validation_loss, validation_loss')
             /\ Len(validation_loss') <= Len(validation_loss) + 1
       /\ loss' = Reported(reported', "loss")
       /\ validation_loss' = Reported(reported', "val_loss")]_vars

\* a second training on the same instance, one epoch in, without val_loss
C10_Witness ==
    /\ runs = 2
    /\ loss = <<2>>
    /\ validation_loss = <<>>
    /\ Len(reported) = 1
====
